---- MODULE Spec2Model ----
(***************************************************************************)
(* The IoT gateway of src/app.py: the SQLite store (tables channels and    *)
(* sensor_data), the store functions create_channel, get_channels,         *)
(* insert_data and fetch_data, the FastAPI handlers in front of them, the  *)
(* slowapi limiter on GET /api/data, and the Streamlit form that calls     *)
(* create_channel from its own script thread.                              *)
(*                                                                         *)
(* Text whose characters matter (field names, the comma separated fields   *)
(* column) is a sequence of one-character strings; text that is only       *)
(* stored and compared (channel ids, names, values) is a TLA+ string.      *)
(***************************************************************************)
EXTENDS Integers, Sequences, FiniteSets, TLC

VARIABLES
    channels,     \* table channels: sequence of rows, in rowid order
    sensor_data,  \* table sensor_data: sequence of rows, in id order
    columns,      \* the column names of table sensor_data, <<>> without the table
    now,          \* the wall clock CURRENT_TIMESTAMP reads, in seconds
    hits,         \* limiter storage: requests counted per client address
    pc,           \* per thread: where it stands inside a store function
    local,        \* per thread: the arguments and the connection of the call
    resp,         \* the operation of the last step and what it answered
    supplied,     \* history: the field list each registered channel was created with
    accepted      \* history: the items of every submission answered with success

vars == <<channels, sensor_data, columns, now, hits, pc, local, resp, supplied, accepted>>

-----------------------------------------------------------------------------
(* Bounds of the model *)

MaxRows == 2      \* rows of sensor_data the model lets the store hold
MaxTime == 1      \* the clock runs over 0..MaxTime
MaxHits == 1      \* requests per address and window explored by Spec
MaxOver == 1      \* requests beyond the limit explored by SpecRate

(* Program constants *)

RateLimit == 50   \* @limiter.limit("50/minute")
MaxSlots == 5     \* field1..field5 / value1..value5

-----------------------------------------------------------------------------
(* Inputs *)

T == <<"t">>
H == <<"h">>
TH == <<"t", ",", "h">>        \* one field name that holds a comma
Empty == <<>>                  \* the empty string

Addrs == {"ip1", "ip2"}
ChannelIds == {"ch1", "ch2"}

\* A query parameter that was not sent is None (the Query(None) default);
\* one that was sent is Some(its text).
None == <<>>
Some(x) == <<x>>
IsNone(p) == Len(p) = 0
Get(p) == p[1]

Threads == {"api", "ui"}

-----------------------------------------------------------------------------
(* Text: ','.join(fields) and text.split(',') *)

RECURSIVE Join(_)
Join(fields) ==
    IF Len(fields) = 0 THEN <<>>
    ELSE IF Len(fields) = 1 THEN fields[1]
    ELSE fields[1] \o <<",">> \o Join(Tail(fields))

RECURSIVE SplitFrom(_, _, _, _)
SplitFrom(text, i, cur, acc) ==
    IF i > Len(text) THEN Append(acc, cur)
    ELSE IF text[i] = "," THEN SplitFrom(text, i + 1, <<>>, Append(acc, cur))
    ELSE SplitFrom(text, i + 1, Append(cur, text[i]), acc)

Split(text) == SplitFrom(text, 1, <<>>, <<>>)

\* text.strip(), the only white space being the blank
RECURSIVE Strip(_)
Strip(text) ==
    IF text = <<>> THEN <<>>
    ELSE IF text[1] = " " THEN Strip(Tail(text))
    ELSE IF text[Len(text)] = " " THEN Strip(SubSeq(text, 1, Len(text) - 1))
    ELSE text

\* x in list
In(x, list) == \E i \in 1..Len(list) : list[i] = x

-----------------------------------------------------------------------------
(* The store functions, as functions of the tables they read *)

\* SELECT ... FROM channels WHERE channelId=? ; fetchone(): the first
\* matching row in a one-element sequence, or the empty sequence.
SelectChannel(chs, channelId) ==
    LET hit == {i \in 1..Len(chs) : chs[i].channelId = channelId}
    IN  IF hit = {} THEN <<>>
        ELSE <<chs[CHOOSE i \in hit : \A j \in hit : i <= j]>>

\* Mutant of InsertChannel: a channels table without its PRIMARY KEY.
InsertChannelNoKey(chs, channelId, name, fields) ==
    [error |-> "",
     channels |-> Append(chs, [channelId |-> channelId, name |-> name,
                               fields |-> Join(fields)])]

\* Mutant of InsertChannel: INSERT OR REPLACE, the row that holds the key
\* gives way to the new one.
InsertChannelReplace(chs, channelId, name, fields) ==
    [error |-> "",
     channels |-> Append(SelectSeq(chs, LAMBDA r : r.channelId # channelId),
                         [channelId |-> channelId, name |-> name,
                          fields |-> Join(fields)])]

\* INSERT INTO channels (channelId, name, fields) VALUES (?, ?, ?), on a
\* table whose channelId is the PRIMARY KEY: a second row with the same key
\* is refused with sqlite3.IntegrityError.
InsertChannel(chs, channelId, name, fields) ==
    IF SelectChannel(chs, channelId) # <<>>
    THEN [error |-> "IntegrityError", channels |-> chs]
    ELSE [error |-> "",
          channels |-> Append(chs, [channelId |-> channelId, name |-> name,
                                    fields |-> Join(fields)])]

\* Mutant of create_channel: INSERT OR REPLACE instead of the duplicate check.
create_channel_replace(chs, channelId, name, fields) ==
    [ok |-> TRUE, msg |-> "Channel created",
     channels |-> InsertChannel(SelectSeq(chs, LAMBDA r : r.channelId # channelId),
                                channelId, name, fields).channels]

create_channel(chs, channelId, name, fields) ==
    IF SelectChannel(chs, channelId) # <<>>
    THEN [ok |-> FALSE, msg |-> "Channel already exists", channels |-> chs]
    ELSE [ok |-> TRUE, msg |-> "Channel created",
          channels |-> InsertChannel(chs, channelId, name, fields).channels]

get_channels(chs) == chs

\* Mutant of FirstDisallowed: the loop runs to its end and the last
\* disallowed item is the one reported.
LastDisallowed(data_list, allowed) ==
    LET bad == {i \in 1..Len(data_list) : ~In(data_list[i].field, allowed)}
    IN  IF bad = {} THEN 0 ELSE CHOOSE i \in bad : \A j \in bad : i >= j

\* The first item of data_list whose field is not in allowed, or 0.
FirstDisallowed(data_list, allowed) ==
    LET bad == {i \in 1..Len(data_list) : ~In(data_list[i].field, allowed)}
    IN  IF bad = {} THEN 0 ELSE CHOOSE i \in bad : \A j \in bad : i <= j

\* Mutant of InsertRows: execute instead of executemany, the first item
\* alone is inserted.
InsertRowsFirstOnly(data, clock, channelId, data_list) ==
    data \o [i \in 1..(IF data_list = <<>> THEN 0 ELSE 1) |->
                [id |-> Len(data) + i, channelId |-> channelId,
                 field |-> data_list[i].field, value |-> data_list[i].value,
                 timestamp |-> clock]]

\* Mutant of InsertRows: the table keeps the latest reading of a channel's
\* field only.
InsertRowsLatest(data, clock, channelId, data_list) ==
    SelectSeq(data, LAMBDA r : ~(/\ r.channelId = channelId
                                 /\ \E i \in 1..Len(data_list) :
                                       data_list[i].field = r.field))
    \o [i \in 1..Len(data_list) |->
           [id |-> Len(data) + i, channelId |-> channelId,
            field |-> data_list[i].field, value |-> data_list[i].value,
            timestamp |-> clock]]

\* executemany(INSERT INTO sensor_data (channelId, field, value) ...): id is
\* the AUTOINCREMENT key, timestamp the CURRENT_TIMESTAMP default.
InsertRows(data, clock, channelId, data_list) ==
    data \o [i \in 1..Len(data_list) |->
                [id |-> Len(data) + i, channelId |-> channelId,
                 field |-> data_list[i].field, value |-> data_list[i].value,
                 timestamp |-> clock]]

\* Mutant of insert_data: each item is inserted as it passes, so the items
\* before a disallowed one stay.
insert_data_partial(chs, data, clock, channelId, data_list) ==
    LET row == SelectChannel(chs, channelId)
    IN  IF row = <<>>
        THEN [ok |-> FALSE, msg |-> "Channel does not exist", field |-> Empty,
              sensor_data |-> data]
        ELSE LET bad == FirstDisallowed(data_list, Split(row[1].fields))
             IN  IF bad # 0
                 THEN [ok |-> FALSE, msg |-> "Field not allowed in channel",
                       field |-> data_list[bad].field,
                       sensor_data |-> InsertRows(data, clock, channelId,
                                                  SubSeq(data_list, 1, bad - 1))]
                 ELSE [ok |-> TRUE, msg |-> "Data inserted", field |-> Empty,
                       sensor_data |-> InsertRows(data, clock, channelId, data_list)]

\* Mutant of insert_data: no channel lookup, every field is taken.
insert_data_no_lookup(chs, data, clock, channelId, data_list) ==
    [ok |-> TRUE, msg |-> "Data inserted", field |-> Empty,
     sensor_data |-> InsertRows(data, clock, channelId, data_list)]

insert_data(chs, data, clock, channelId, data_list) ==
    LET row == SelectChannel(chs, channelId)
    IN  IF row = <<>>
        THEN [ok |-> FALSE, msg |-> "Channel does not exist", field |-> Empty,
              sensor_data |-> data]
        ELSE LET allowed_fields == Split(row[1].fields)
                 bad == FirstDisallowed(data_list, allowed_fields)
             IN  IF bad # 0
                 THEN [ok |-> FALSE, msg |-> "Field not allowed in channel",
                       field |-> data_list[bad].field, sensor_data |-> data]
                 ELSE [ok |-> TRUE, msg |-> "Data inserted", field |-> Empty,
                       sensor_data |-> InsertRows(data, clock, channelId, data_list)]

\* ORDER BY timestamp ASC: rows of equal timestamp stay in id order.
RECURSIVE InsertSorted(_, _)
InsertSorted(sorted, r) ==
    IF sorted = <<>> THEN <<r>>
    ELSE IF sorted[Len(sorted)].timestamp <= r.timestamp THEN Append(sorted, r)
    ELSE Append(InsertSorted(SubSeq(sorted, 1, Len(sorted) - 1), r), sorted[Len(sorted)])

\* Mutant of OrderByTimestamp: the query without its ORDER BY.
Unordered(rows) == rows

RECURSIVE OrderByTimestamp(_)
OrderByTimestamp(rows) ==
    IF rows = <<>> THEN <<>>
    ELSE InsertSorted(OrderByTimestamp(SubSeq(rows, 1, Len(rows) - 1)), rows[Len(rows)])

\* SELECT channelId, field, value, timestamp FROM sensor_data [WHERE channelId=?]
Columns(r) ==
    [channelId |-> r.channelId, field |-> r.field, value |-> r.value,
     timestamp |-> r.timestamp]

\* Mutant of Where: the WHERE clause is dropped.
WhereAny(rows, channelId) == rows

Where(rows, channelId) == SelectSeq(rows, LAMBDA r : r.channelId = channelId)

\* Mutant of fetch_data: the query with the WHERE clause is run whether or
\* not a channelId is given.
fetch_data_always_where(data, channelId) ==
    LET sorted == OrderByTimestamp(Where(data, channelId))
    IN  [i \in 1..Len(sorted) |-> Columns(sorted[i])]

\* `if channelId:` is false for the empty string, and then every row is read.
fetch_data(data, channelId) ==
    LET hit == IF channelId # "" THEN Where(data, channelId) ELSE data
        sorted == OrderByTimestamp(hit)
    IN  [i \in 1..Len(sorted) |-> Columns(sorted[i])]

-----------------------------------------------------------------------------
(* The HTTP layer *)

\* The routes the decorators register: @app.post / @app.get.
Routes ==
    { <<"POST", "/api/channel">>, <<"GET", "/api/channels">>,
      <<"GET", "/api/data">>, <<"GET", "/api/data/{channelId}">> }

\* What the router answers before any handler runs: 200 stands for "the
\* handler is called", 405 for a path registered under other methods only.
RouteStatus(method, path) ==
    IF <<method, path>> \in Routes THEN 200
    ELSE IF \E r \in Routes : r[2] = path THEN 405
    ELSE 404

\* What one step did and answered, and what a call in progress holds: the
\* request as it was sent (payload, query), what the handler drew from it,
\* the call's connection (conn) with the rows written through it and not
\* committed yet, and the answer.  Fields an operation does not use keep their defaults.
NoAnswer ==
    [op |-> "init", addr |-> "", channelId |-> "", name |-> "", fields |-> <<>>,
     data_list |-> <<>>, status |-> 0, msg |-> "", field |-> Empty,
     count |-> 0, body |-> <<>>, payload |-> <<>>, query |-> <<>>,
     uncommitted |-> <<>>, conn |-> "closed"]

\* Mutant of OptionalPairs: the loop ends at the first slot that is not
\* filled.
RECURSIVE OptionalPairsUntilGap(_, _)
OptionalPairsUntilGap(q, n) ==
    IF n > MaxSlots THEN <<>>
    ELSE IF ~IsNone(q.field[n]) /\ ~IsNone(q.value[n])
         THEN <<[field |-> Get(q.field[n]), value |-> Get(q.value[n])]>>
              \o OptionalPairsUntilGap(q, n + 1)
         ELSE <<>>

\* receive_data_query: the list built from field1..field5 / value1..value5.
RECURSIVE OptionalPairs(_, _)
OptionalPairs(q, n) ==
    IF n > MaxSlots THEN <<>>
    ELSE (IF ~IsNone(q.field[n]) /\ ~IsNone(q.value[n])
          THEN <<[field |-> Get(q.field[n]), value |-> Get(q.value[n])]>>
          ELSE <<>>) \o OptionalPairs(q, n + 1)

DataList(q) ==
    (IF Get(q.field[1]) # Empty /\ Get(q.value[1]) # ""
     THEN <<[field |-> Get(q.field[1]), value |-> Get(q.value[1])]>>
     ELSE <<>>) \o OptionalPairs(q, 2)

\* channelId, field1 and value1 are Query(...): required.
MissingRequired(q) ==
    IsNone(q.channelId) \/ IsNone(q.field[1]) \/ IsNone(q.value[1])

\* The flattened request that carries data_list in slots 1..Len(data_list).
QueryOf(channelId, data_list) ==
    [channelId |-> Some(channelId),
     field |-> [n \in 1..MaxSlots |->
                   IF n <= Len(data_list) THEN Some(data_list[n].field) ELSE None],
     value |-> [n \in 1..MaxSlots |->
                   IF n <= Len(data_list) THEN Some(data_list[n].value) ELSE None]]

\* The flattened request whose slot n carries slots[n] = <<fieldN, valueN>>,
\* each of the two sent or not.
SlotQuery(channelId, slots) ==
    [channelId |-> Some(channelId),
     field |-> [n \in 1..MaxSlots |-> slots[n][1]],
     value |-> [n \in 1..MaxSlots |-> slots[n][2]]]

\* Mutant of LimiterPasses: the count is compared before this request is
\* added to it, which lets one request more through.
LimiterPassesOneMore(count) == count <= RateLimit

\* limiter.hit: the request is counted, and passes while the count stays
\* within the limit.
LimiterPasses(count) == count + 1 <= RateLimit

\* Mutant of get_remote_address: every request is counted under one key.
get_remote_address_shared(addr) == "ip1"

\* key_func=get_remote_address: the limiter's key is the client's address.
get_remote_address(addr) == addr

\* The columns CREATE TABLE sensor_data gives the table.
CurrentColumns == <<"id", "channelId", "field", "value", "timestamp">>

\* The columns of a sensor_data table that an earlier version of the
\* program made, without channelId.
LegacyColumns == <<"id", "field", "value", "timestamp">>

\* Mutant of init_db: both tables are made anew at every start.
init_db_reset(chs, cols, data) ==
    [channels |-> <<>>, columns |-> CurrentColumns, sensor_data |-> <<>>]

\* init_db on a database with these tables: PRAGMA table_info(sensor_data)
\* gives cols (nothing for a table that is not there), the DROP runs when
\* channelId is not among them, and the two CREATE TABLE IF NOT EXISTS make
\* what is missing and leave what is there.
init_db(chs, cols, data) ==
    LET drop == ~In("channelId", cols)
    IN  [channels |-> chs,
         columns |-> IF drop THEN CurrentColumns ELSE cols,
         sensor_data |-> IF drop THEN <<>> ELSE data]

-----------------------------------------------------------------------------
(* State after start-up: init_db() on a fresh database, an empty limiter *)

Init ==
    /\ channels = <<>>
    /\ sensor_data = <<>>
    /\ columns = CurrentColumns
    /\ now = 0
    /\ hits = [a \in Addrs |-> 0]
    /\ pc = [t \in Threads |-> "idle"]
    /\ local = [t \in Threads |-> NoAnswer]
    /\ resp = NoAnswer
    /\ supplied = [c \in ChannelIds |-> <<>>]
    /\ accepted = <<>>

\* The handlers are coroutines of one event loop and never await inside the
\* store calls: one runs at a time.
Idle == pc["api"] = "idle"

-----------------------------------------------------------------------------
(* The handlers, each run from its first line to its return *)

\* POST /api/channel
api_create_channel(channelId, name, fields) ==
    LET invalid == channelId = "" \/ name = "" \/ fields = <<>>
        r == create_channel(channels, channelId, name, fields)
        req == [NoAnswer EXCEPT !.op = "api_create_channel", !.channelId = channelId,
                                !.name = name, !.fields = fields]
    IN  /\ Idle
        /\ channels' = IF invalid THEN channels ELSE r.channels
        /\ resp' = IF invalid
                   THEN [req EXCEPT !.status = 400,
                                    !.msg = "Missing or invalid channelId, name, or fields"]
                   ELSE IF ~r.ok THEN [req EXCEPT !.status = 400, !.msg = r.msg]
                   ELSE [req EXCEPT !.status = 200, !.msg = r.msg]
        /\ supplied' = IF ~invalid /\ r.ok
                       THEN [supplied EXCEPT ![channelId] = fields]
                       ELSE supplied
        /\ UNCHANGED <<sensor_data, now, columns, hits, pc, local, accepted>>

\* The values request.json() gives for the keys of the payload: None for a
\* key that was not sent, a string (str for an id or a name, list for the
\* characters of a text sent where the field list belongs) or a list.
JNone == [kind |-> "none", str |-> "", list |-> <<>>]

JStr(s) == [kind |-> "str", str |-> s, list |-> <<>>]

JText(chars) == [kind |-> "str", str |-> "", list |-> chars]

JList(l) == [kind |-> "list", str |-> "", list |-> l]

\* `not v`: true of None, of the empty string and of the empty list.
Falsy(v) == v.kind = "none" \/ (v.str = "" /\ v.list = <<>>)

\* What a loop over v visits: the elements of a list, the characters of a
\* string.
Iterate(v) ==
    IF v.kind = "list" THEN v.list ELSE [i \in 1..Len(v.list) |-> <<v.list[i]>>]

\* Mutant of InvalidPayload: the type of fields is not looked at.
InvalidPayloadAnyType(channelId, name, fields) ==
    Falsy(channelId) \/ Falsy(name) \/ Falsy(fields)

\* if not channelId or not name or not fields or not isinstance(fields, list)
InvalidPayload(channelId, name, fields) ==
    Falsy(channelId) \/ Falsy(name) \/ Falsy(fields) \/ fields.kind # "list"

\* POST /api/channel from the JSON body on: payload.get for the three keys,
\* the check of what they gave, and then the handler as above.
api_create_channel_request(payload) ==
    LET channelId == payload.channelId
        name == payload.name
        fields == payload.fields
    IN  IF InvalidPayload(channelId, name, fields)
        THEN /\ Idle
             /\ resp' = [NoAnswer EXCEPT
                           !.op = "api_create_channel", !.payload = <<payload>>,
                           !.channelId = channelId.str, !.name = name.str,
                           !.status = 400,
                           !.msg = "Missing or invalid channelId, name, or fields"]
             /\ UNCHANGED <<channels, sensor_data, now, columns, hits, pc, local, supplied,
                            accepted>>
        ELSE api_create_channel(channelId.str, name.str, Iterate(fields))

\* {"channelId": r[0], "name": r[1], "fields": r[2].split(',')} for r in rows
ChannelsBody(rows) ==
    [i \in 1..Len(rows) |->
        [channelId |-> rows[i].channelId, name |-> rows[i].name,
         fields |-> Split(rows[i].fields)]]

\* GET /api/channels
api_get_channels ==
    LET rows == get_channels(channels)
    IN  /\ Idle
        /\ resp' = [NoAnswer EXCEPT !.op = "api_get_channels", !.status = 200,
                                    !.body = ChannelsBody(rows)]
        /\ UNCHANGED <<channels, sensor_data, now, columns, hits, pc, local, supplied, accepted>>

\* GET /api/data, under @limiter.limit("50/minute")
receive_data_query(addr, q) ==
    LET data_list == DataList(q)
        channelId == Get(q.channelId)
        r == insert_data(channels, sensor_data, now, channelId, data_list)
        key == get_remote_address(addr)
        req == [NoAnswer EXCEPT !.op = "receive_data_query", !.addr = addr,
                                !.query = <<q>>]
    IN  /\ Idle
        /\ IF MissingRequired(q)
           THEN \* FastAPI answers before the decorated function is called
                /\ resp' = [req EXCEPT !.status = 422]
                /\ UNCHANGED <<sensor_data, hits, accepted>>
           ELSE /\ hits' = [hits EXCEPT ![key] = @ + 1]
                /\ IF ~LimiterPasses(hits[key])
                   THEN /\ resp' = [req EXCEPT !.channelId = channelId,
                                               !.data_list = data_list,
                                               !.status = 429, !.msg = "50 per 1 minute"]
                        /\ UNCHANGED <<sensor_data, accepted>>
                   ELSE IF channelId = "" \/ data_list = <<>>
                   THEN /\ resp' = [req EXCEPT !.channelId = channelId,
                                               !.status = 400,
                                               !.msg = "Missing channelId or data"]
                        /\ UNCHANGED <<sensor_data, accepted>>
                   ELSE /\ Len(r.sensor_data) <= MaxRows
                        /\ sensor_data' = r.sensor_data
                        /\ accepted' = IF r.ok
                                       THEN accepted \o
                                            [i \in 1..Len(data_list) |->
                                                [channelId |-> channelId,
                                                 field |-> data_list[i].field,
                                                 value |-> data_list[i].value]]
                                       ELSE accepted
                        /\ resp' = [req EXCEPT !.channelId = channelId,
                                               !.data_list = data_list,
                                               !.status = IF r.ok THEN 200 ELSE 400,
                                               !.msg = r.msg, !.field = r.field,
                                               !.count = IF r.ok THEN Len(data_list) ELSE 0]
        /\ UNCHANGED <<channels, now, columns, pc, local, supplied>>

\* POST /api/data with the JSON body {channelId, data: [...]}
post_api_data(addr, channelId, data_list) ==
    /\ Idle
    /\ RouteStatus("POST", "/api/data") # 200
    /\ resp' = [NoAnswer EXCEPT !.op = "post_api_data", !.addr = addr,
                                !.channelId = channelId, !.data_list = data_list,
                                !.status = RouteStatus("POST", "/api/data"),
                                !.msg = "Method Not Allowed"]
    /\ UNCHANGED <<channels, sensor_data, now, columns, hits, pc, local, supplied, accepted>>

\* Mutant of api_get_data: the fetch is put under the limiter as well and
\* counts against the client's window.
api_get_data_limited(channelId) ==
    /\ Idle
    /\ hits["ip1"] < RateLimit
    /\ hits' = [hits EXCEPT !["ip1"] = @ + 1]
    /\ resp' = [NoAnswer EXCEPT !.op = "api_get_data", !.channelId = channelId,
                                !.status = 200,
                                !.body = fetch_data(sensor_data, channelId)]
    /\ UNCHANGED <<channels, sensor_data, now, columns, pc, local, supplied, accepted>>

\* GET /api/data/{channelId}
api_get_data(channelId) ==
    /\ Idle
    /\ resp' = [NoAnswer EXCEPT !.op = "api_get_data", !.channelId = channelId,
                                !.status = 200,
                                !.body = fetch_data(sensor_data, channelId)]
    /\ UNCHANGED <<channels, sensor_data, now, columns, hits, pc, local, supplied, accepted>>

-----------------------------------------------------------------------------
(* create_channel statement by statement.  The event loop's thread runs it
   for POST /api/channel and the Streamlit script thread runs it for the
   "Create Channel" form; each opens its own connection, so another thread's
   statements can fall between the SELECT and the INSERT. *)

\* fields_list = [f.strip() for f in new_fields.split(",") if f.strip()]
FormFields(text) ==
    LET parts == Split(text)
    IN  SelectSeq([i \in 1..Len(parts) |-> Strip(parts[i])], LAMBDA f : f # <<>>)

\* sqlite3.connect, the SELECT and the early return of create_channel, in
\* thread t.  The early return closes the connection; past the SELECT the
\* call holds it open.
create_channel_select(t, op, channelId, name, fields) ==
    LET req == [NoAnswer EXCEPT !.op = op, !.channelId = channelId,
                                !.name = name, !.fields = fields]
        held == [req EXCEPT !.conn = "open"]
    IN  /\ pc[t] = "idle"
        /\ IF SelectChannel(channels, channelId) # <<>>
           THEN /\ resp' = [req EXCEPT !.status = 400, !.msg = "Channel already exists"]
                /\ UNCHANGED <<pc, local>>
           ELSE /\ pc' = [pc EXCEPT ![t] = "insert"]
                /\ local' = [local EXCEPT ![t] = held]
                /\ resp' = [held EXCEPT !.msg = "SELECT found no row"]
        /\ UNCHANGED <<channels, sensor_data, now, columns, hits, supplied, accepted>>

\* POST /api/channel up to the SELECT
api_create_channel_begin(channelId, name, fields) ==
    IF channelId = "" \/ name = "" \/ fields = <<>>
    THEN /\ pc["api"] = "idle"
         /\ resp' = [NoAnswer EXCEPT
                       !.op = "api_create_channel", !.channelId = channelId,
                       !.name = name, !.fields = fields, !.status = 400,
                       !.msg = "Missing or invalid channelId, name, or fields"]
         /\ UNCHANGED <<channels, sensor_data, now, columns, hits, pc, local, supplied, accepted>>
    ELSE create_channel_select("api", "api_create_channel", channelId, name, fields)

\* The form's submit up to the SELECT
form_create_channel_begin(new_channel_id, new_channel_name, new_fields) ==
    LET fields_list == FormFields(new_fields)
    IN  IF new_channel_id = "" \/ new_channel_name = "" \/ fields_list = <<>>
        THEN /\ pc["ui"] = "idle"
             /\ resp' = [NoAnswer EXCEPT
                           !.op = "form_create_channel", !.channelId = new_channel_id,
                           !.name = new_channel_name, !.fields = fields_list,
                           !.msg = "Please provide all details."]
             /\ UNCHANGED <<channels, sensor_data, now, columns, hits, pc, local,
                            supplied, accepted>>
        ELSE create_channel_select("ui", "form_create_channel", new_channel_id,
                                   new_channel_name, fields_list)

\* The INSERT, commit, close and return of create_channel, in thread t.  An
\* IntegrityError is caught nowhere: the request ends as a server error, and
\* the exception passes conn.close() by, so that the connection stays open
\* with the frame the traceback keeps.
create_channel_insert(t) ==
    LET req == local[t]
        r == InsertChannel(channels, req.channelId, req.name, req.fields)
    IN  /\ pc[t] = "insert"
        /\ pc' = [pc EXCEPT ![t] = "idle"]
        /\ local' = [local EXCEPT ![t] = IF r.error # ""
                                         THEN [NoAnswer EXCEPT !.conn = "open"]
                                         ELSE NoAnswer]
        /\ channels' = r.channels
        /\ resp' = IF r.error # ""
                   THEN [req EXCEPT !.status = 500, !.msg = r.error]
                   ELSE [req EXCEPT !.status = 200, !.msg = "Channel created",
                                    !.conn = "closed"]
        /\ supplied' = IF r.error = ""
                       THEN [supplied EXCEPT ![req.channelId] = req.fields]
                       ELSE supplied
        /\ UNCHANGED <<sensor_data, now, columns, hits, accepted>>

-----------------------------------------------------------------------------
(* insert_data statement by statement.  sqlite3 opens a transaction at the
   first INSERT of executemany; what the connection has written is read by
   no other connection until conn.commit().  The Streamlit script thread
   reads the store through connections of its own meanwhile. *)

\* Mutant of WriteRow: the connection commits every statement as it runs.
WriteRowAutocommit(committed, uncommitted, row) ==
    [committed |-> Append(committed, row), uncommitted |-> uncommitted]

\* One INSERT of c.executemany(...): the row stays with the connection.
WriteRow(committed, uncommitted, row) ==
    [committed |-> committed, uncommitted |-> Append(uncommitted, row)]

\* Mutant of Commit: the connection is closed without a commit, which rolls
\* its rows back.
CommitLost(committed, uncommitted) == committed

\* conn.commit(): the connection's rows join the table every connection reads.
Commit(committed, uncommitted) == committed \o uncommitted

\* GET /api/data up to insert_data's checks.  A request that is answered
\* before executemany is answered as receive_data_query answers it.
receive_data_query_begin(addr, q) ==
    LET data_list == DataList(q)
        channelId == Get(q.channelId)
        key == get_remote_address(addr)
        r == insert_data(channels, sensor_data, now, channelId, data_list)
        req == [NoAnswer EXCEPT !.op = "receive_data_query", !.addr = addr,
                                !.query = <<q>>, !.channelId = channelId,
                                !.data_list = data_list, !.conn = "open"]
    IN  IF \/ MissingRequired(q)
           \/ ~LimiterPasses(hits[key])
           \/ channelId = ""
           \/ data_list = <<>>
           \/ ~r.ok
        THEN receive_data_query(addr, q)
        ELSE /\ Idle
             /\ Len(sensor_data) + Len(data_list) <= MaxRows
             /\ hits' = [hits EXCEPT ![key] = @ + 1]
             /\ pc' = [pc EXCEPT !["api"] = "executemany"]
             /\ local' = [local EXCEPT !["api"] = req]
             /\ resp' = [req EXCEPT !.msg = "fields allowed"]
             /\ UNCHANGED <<channels, sensor_data, now, columns, supplied, accepted>>

\* executemany, one row of data_list at a time; count is the number of rows
\* written so far.
insert_data_executemany(t) ==
    LET req == local[t]
        d == req.data_list[req.count + 1]
        row == [id |-> Len(sensor_data) + Len(req.uncommitted) + 1,
                channelId |-> req.channelId, field |-> d.field,
                value |-> d.value, timestamp |-> now]
        w == WriteRow(sensor_data, req.uncommitted, row)
        next == [req EXCEPT !.count = @ + 1, !.uncommitted = w.uncommitted]
    IN  /\ pc[t] = "executemany"
        /\ sensor_data' = w.committed
        /\ local' = [local EXCEPT ![t] = next]
        /\ pc' = [pc EXCEPT ![t] = IF next.count = Len(req.data_list)
                                   THEN "commit" ELSE "executemany"]
        /\ resp' = [next EXCEPT !.msg = "row written", !.uncommitted = <<>>]
        /\ UNCHANGED <<channels, now, columns, hits, supplied, accepted>>

\* conn.commit(), conn.close() and the handler's answer
insert_data_commit(t) ==
    LET req == local[t]
    IN  /\ pc[t] = "commit"
        /\ sensor_data' = Commit(sensor_data, req.uncommitted)
        /\ accepted' = accepted \o
                       [i \in 1..Len(req.data_list) |->
                           [channelId |-> req.channelId,
                            field |-> req.data_list[i].field,
                            value |-> req.data_list[i].value]]
        /\ pc' = [pc EXCEPT ![t] = "idle"]
        /\ local' = [local EXCEPT ![t] = NoAnswer]
        /\ resp' = [req EXCEPT !.status = 200, !.msg = "Data inserted",
                               !.count = Len(req.data_list),
                               !.uncommitted = <<>>, !.conn = "closed"]
        /\ UNCHANGED <<channels, now, columns, hits, supplied>>

\* channels = get_channels() at the top of a run of the Streamlit script
form_get_channels ==
    /\ pc["ui"] = "idle"
    /\ resp' = [NoAnswer EXCEPT !.op = "form_get_channels",
                                !.body = get_channels(channels)]
    /\ UNCHANGED <<channels, sensor_data, now, columns, hits, pc, local, supplied, accepted>>

\* vis_df = fetch_data(selected_channel): the selectbox gives a channel of
\* the list read at the top of the run, or None when that list was empty.
form_fetch_data(selected_channel) ==
    /\ pc["ui"] = "idle"
    /\ selected_channel = "" \/ SelectChannel(channels, selected_channel) # <<>>
    /\ resp' = [NoAnswer EXCEPT !.op = "form_fetch_data",
                                !.channelId = selected_channel,
                                !.body = fetch_data(sensor_data, selected_channel)]
    /\ UNCHANGED <<channels, sensor_data, now, columns, hits, pc, local, supplied, accepted>>

-----------------------------------------------------------------------------
(* The environment *)

\* The garbage collector frees the frame an exception left behind, and with
\* it the connection the frame held.
connection_collected(t) ==
    /\ pc[t] = "idle"
    /\ local[t].conn = "open"
    /\ local' = [local EXCEPT ![t] = NoAnswer]
    /\ resp' = [NoAnswer EXCEPT !.op = "connection_collected"]
    /\ UNCHANGED <<channels, sensor_data, now, columns, hits, pc, supplied, accepted>>

\* The script runs from its top: init_db() at line 98, and at the first run
\* of a process the API thread is started after it.
init_db_call ==
    LET db == init_db(channels, columns, sensor_data)
    IN  /\ pc["ui"] \in {"start", "idle"}
        /\ channels' = db.channels
        /\ columns' = db.columns
        /\ sensor_data' = db.sensor_data
        /\ pc' = IF pc["ui"] = "start" THEN [t \in Threads |-> "idle"] ELSE pc
        /\ resp' = [NoAnswer EXCEPT !.op = "init_db"]
        /\ UNCHANGED <<now, hits, local, supplied, accepted>>

\* The process ends and is started again: the database file stays, what
\* the process held in memory (calls in progress with their uncommitted
\* rows, the limiter's counts) is gone.
Restart ==
    /\ pc' = [t \in Threads |-> "start"]
    /\ local' = [t \in Threads |-> NoAnswer]
    /\ hits' = [a \in Addrs |-> 0]
    /\ resp' = [NoAnswer EXCEPT !.op = "Restart"]
    /\ UNCHANGED <<channels, sensor_data, columns, now, supplied, accepted>>

\* The wall clock moves on.
Tick ==
    /\ now < MaxTime
    /\ now' = now + 1
    /\ resp' = [NoAnswer EXCEPT !.op = "Tick"]
    /\ UNCHANGED <<channels, sensor_data, columns, hits, pc, local, supplied, accepted>>

\* The wall clock is set back (CURRENT_TIMESTAMP reads the system time).
ClockSetBack ==
    /\ now > 0
    /\ now' = now - 1
    /\ resp' = [NoAnswer EXCEPT !.op = "ClockSetBack"]
    /\ UNCHANGED <<channels, sensor_data, columns, hits, pc, local, supplied, accepted>>

\* A minute after an address's first counted request its window ends.
WindowExpires(addr) ==
    /\ hits[addr] > 0
    /\ hits' = [hits EXCEPT ![addr] = 0]
    /\ resp' = [NoAnswer EXCEPT !.op = "WindowExpires", !.addr = addr]
    /\ UNCHANGED <<channels, sensor_data, now, columns, pc, local, supplied, accepted>>

-----------------------------------------------------------------------------
(* Spec: the handlers one after another *)

\* What Spec's clients send: "ch1" is created, with one of two names and
\* field lists, and "ch2" never is.
Creates ==
    { <<"ch1", "Room1", <<T>>>>, <<"ch1", "Room2", <<TH>>>> }

Batches ==
    { <<[field |-> T, value |-> "1"]>>,
      <<[field |-> TH, value |-> "1"]>>,
      <<[field |-> T, value |-> "1"], [field |-> H, value |-> "2"]>> }

Queries == {QueryOf(c, b) : c \in ChannelIds, b \in Batches}

Items == UNION {{b[i] : i \in 1..Len(b)} : b \in Batches}

Next ==
    \/ \E cr \in Creates : api_create_channel(cr[1], cr[2], cr[3])
    \/ api_get_channels
    \/ \E q \in Queries : hits["ip1"] < MaxHits /\ receive_data_query("ip1", q)
    \/ \E b \in Batches : post_api_data("ip1", "ch1", b)
    \/ \E c \in ChannelIds : api_get_data(c)
    \/ Tick
    \/ ClockSetBack
    \/ WindowExpires("ip1")

Spec == Init /\ [][Next]_vars

-----------------------------------------------------------------------------
(* SpecRate: two clients filling their windows, one channel *)

RateQueries ==
    { QueryOf("ch1", <<[field |-> T, value |-> "1"]>>),
      QueryOf("ch2", <<[field |-> T, value |-> "1"]>>) }

NextRate ==
    \/ api_create_channel("ch1", "Room1", <<T>>)
    \/ \E a \in Addrs, q \in RateQueries :
          hits[a] < RateLimit + MaxOver /\ receive_data_query(a, q)
    \/ \E a \in Addrs : WindowExpires(a)

SpecRate == Init /\ [][NextRate]_vars

-----------------------------------------------------------------------------
(* SpecConc: the API thread and the form's thread, create_channel statement
   by statement, between the other handlers *)

ConcCreates == { <<"ch1", "Room1", <<T>>>>, <<"ch2", "Room1", <<T>>>> }

FormCreates ==
    { <<"ch1", "Room2", <<"t", ",", " ", "h">>>>, <<"ch2", "Room2", <<"t">>>> }

ConcQueries == {QueryOf(c, <<[field |-> T, value |-> "1"]>>) : c \in ChannelIds}

NextConc ==
    \/ \E cr \in ConcCreates : api_create_channel_begin(cr[1], cr[2], cr[3])
    \/ \E cr \in FormCreates : form_create_channel_begin(cr[1], cr[2], cr[3])
    \/ \E t \in Threads : create_channel_insert(t)
    \/ \E t \in Threads : connection_collected(t)
    \/ api_get_channels
    \/ \E q \in ConcQueries : hits["ip1"] < MaxHits /\ receive_data_query("ip1", q)
    \/ \E c \in ChannelIds : api_get_data(c)
    \/ WindowExpires("ip1")

SpecConc == Init /\ [][NextConc]_vars

-----------------------------------------------------------------------------
(* SpecBatch: insert_data statement by statement in the API thread, between
   the reads of the Streamlit script thread and the other handlers *)

BatchQueries ==
    { QueryOf("ch1", <<[field |-> T, value |-> "1"]>>),
      QueryOf("ch1", <<[field |-> T, value |-> "1"], [field |-> H, value |-> "2"]>>),
      QueryOf("ch1", <<[field |-> H, value |-> "2"], [field |-> TH, value |-> "1"]>>),
      QueryOf("ch2", <<[field |-> T, value |-> "1"]>>) }

NextBatch ==
    \/ api_create_channel_begin("ch1", "Room1", <<T, H>>)
    \/ form_create_channel_begin("ch1", "Room2", <<"t", ",", "h">>)
    \/ \E t \in Threads : create_channel_insert(t)
    \/ \E q \in BatchQueries :
          hits["ip1"] < MaxHits /\ receive_data_query_begin("ip1", q)
    \/ \E t \in Threads : insert_data_executemany(t)
    \/ \E t \in Threads : insert_data_commit(t)
    \/ api_get_channels
    \/ \E c \in ChannelIds : api_get_data(c)
    \/ form_get_channels
    \/ \E c \in ChannelIds \cup {""} : form_fetch_data(c)
    \/ Tick
    \/ WindowExpires("ip1")

SpecBatch == Init /\ [][NextBatch]_vars

-----------------------------------------------------------------------------
(* SpecPayload: POST /api/channel with bodies that carry, lack or mistype
   each of the three keys *)

Payloads ==
    [channelId : {JNone, JStr(""), JStr("ch1"), JStr("ch2")},
     name : {JNone, JStr(""), JStr("Room1")},
     fields : {JNone, JList(<<>>), JList(<<T>>), JList(<<T, Empty>>),
               JText(Empty), JText(TH)}]

NextPayload ==
    \/ \E payload \in Payloads : api_create_channel_request(payload)
    \/ api_get_channels

SpecPayload == Init /\ [][NextPayload]_vars

-----------------------------------------------------------------------------
(* SpecSlots: flattened submissions with slots sent whole, in part, empty
   or not at all *)

Slot1 ==
    { <<Some(T), Some("1")>>, <<None, Some("1")>>, <<Some(T), None>>,
      <<Some(Empty), Some("1")>>, <<Some(T), Some("")>> }

Slot2 ==
    { <<None, None>>, <<Some(H), Some("2")>>, <<Some(H), None>>,
      <<None, Some("2")>>, <<Some(Empty), Some("2")>> }

Slot3 == { <<None, None>>, <<Some(T), Some("3")>> }

Slot4 == { <<None, None>> }

Slot5 == { <<None, None>>, <<Some(H), Some("5")>> }

SlotQueries ==
    {SlotQuery("ch1", s) : s \in Slot1 \X Slot2 \X Slot3 \X Slot4 \X Slot5}

NextSlots ==
    \/ api_create_channel("ch1", "Room1", <<T, H>>)
    \/ \E q \in SlotQueries : hits["ip1"] < MaxHits /\ receive_data_query("ip1", q)
    \/ api_get_data("ch1")
    \/ WindowExpires("ip1")

SpecSlots == Init /\ [][NextSlots]_vars

-----------------------------------------------------------------------------
(* SpecOrder: batches with none, one or two disallowed fields, for a
   channel that is registered and for one that is not *)

OrderBatches ==
    { <<[field |-> T, value |-> "1"]>>,
      <<[field |-> H, value |-> "2"], [field |-> T, value |-> "1"]>>,
      <<[field |-> T, value |-> "1"], [field |-> H, value |-> "2"],
        [field |-> TH, value |-> "5"]>>,
      <<[field |-> TH, value |-> "5"], [field |-> H, value |-> "2"]>> }

OrderQueries == {QueryOf(c, b) : c \in ChannelIds, b \in OrderBatches}

NextOrder ==
    \/ \E fields \in {<<T>>, <<T, H>>} : api_create_channel("ch1", "Room1", fields)
    \/ \E q \in OrderQueries : hits["ip1"] < MaxHits /\ receive_data_query("ip1", q)
    \/ \E c \in ChannelIds : api_get_data(c)
    \/ Tick
    \/ WindowExpires("ip1")

SpecOrder == Init /\ [][NextOrder]_vars

-----------------------------------------------------------------------------
(* SpecFetch: two registered channels with readings, fetched one channel at
   a time by either thread and all at once by the script thread *)

NextFetch ==
    \/ \E c \in ChannelIds : api_create_channel(c, "Room1", <<T>>)
    \/ \E q \in ConcQueries : hits["ip1"] < MaxHits /\ receive_data_query("ip1", q)
    \/ api_get_channels
    \/ \E c \in ChannelIds : api_get_data(c)
    \/ form_get_channels
    \/ \E c \in ChannelIds \cup {""} : form_fetch_data(c)
    \/ Tick
    \/ ClockSetBack
    \/ WindowExpires("ip1")

SpecFetch == Init /\ [][NextFetch]_vars

-----------------------------------------------------------------------------
(* SpecInitDb: the process starts on a database file that is not there, that
   an earlier version left, or that this version left; it serves requests,
   the script is run again, the process is restarted *)

LegacyRows == << [id |-> 1, field |-> T, value |-> "1", timestamp |-> 0] >>

InitDb ==
    /\ channels \in { <<>>, <<[channelId |-> "ch1", name |-> "Room1", fields |-> T]>> }
    /\ \E table \in { <<Empty, <<>>>>, <<LegacyColumns, <<>>>>,
                       <<LegacyColumns, LegacyRows>>, <<CurrentColumns, <<>>>> } :
          /\ columns = table[1]
          /\ sensor_data = table[2]
    /\ now = 0
    /\ hits = [a \in Addrs |-> 0]
    /\ pc = [t \in Threads |-> "start"]
    /\ local = [t \in Threads |-> NoAnswer]
    /\ resp = NoAnswer
    /\ supplied = [c \in ChannelIds |-> IF c = "ch1" /\ channels # <<>> THEN <<T>> ELSE <<>>]
    /\ accepted = <<>>

NextInitDb ==
    \/ init_db_call
    \/ Restart
    \/ api_create_channel("ch1", "Room1", <<T>>)
    \/ \E q \in ConcQueries : hits["ip1"] < MaxHits /\ receive_data_query("ip1", q)
    \/ \E c \in ChannelIds : api_get_data(c)
    \/ Tick
    \/ WindowExpires("ip1")

SpecInitDb == InitDb /\ [][NextInitDb]_vars

-----------------------------------------------------------------------------
(* Notions the claims share *)

Registered(chs, channelId) == SelectChannel(chs, channelId) # <<>>

\* The entries GET /api/channels would list for channelId.
EntriesFor(chs, channelId) ==
    SelectSeq(ChannelsBody(get_channels(chs)), LAMBDA e : e.channelId = channelId)

\* A create request that passes api_create_channel's own checks.
WellFormedCreate(r) ==
    r.op = "api_create_channel" /\ r.channelId # "" /\ r.name # "" /\ r.fields # <<>>

\* A submission that reached insert_data: counted and passed by the limiter,
\* with a channel id and at least one item.
ReachedInsert(r, count) ==
    /\ r.op = "receive_data_query"
    /\ r.status # 422
    /\ LimiterPasses(count)
    /\ r.channelId # ""
    /\ r.data_list # <<>>

\* How many rows of a fetch result carry this channel, field and value.
Count(rows, channelId, item) ==
    Cardinality({i \in 1..Len(rows) :
                    /\ rows[i].channelId = channelId
                    /\ rows[i].field = item.field
                    /\ rows[i].value = item.value})

Sorted(rows) ==
    \A i \in 1..Len(rows) : \A j \in 1..Len(rows) :
        i < j => rows[i].timestamp <= rows[j].timestamp

-----------------------------------------------------------------------------
(* The claims *)

\* C1 (as claimed): a create for a channelId that is not registered, with a
\* non-empty name and a non-empty list of field names, succeeds, and the
\* listing then holds exactly one entry for that channelId, with the name
\* and the field list that were supplied, in the same order.
C1_FreshCreateIsListed ==
    [][ (WellFormedCreate(resp') /\ ~Registered(channels, resp'.channelId))
        => /\ resp'.status = 200
           /\ EntriesFor(channels', resp'.channelId)
                = << [channelId |-> resp'.channelId, name |-> resp'.name,
                      fields |-> resp'.fields] >> ]_vars

\* C2: a create for a channelId that is already registered answers 400
\* "Channel already exists" whatever name and fields it carries, and leaves
\* both tables as they were.
C2_DuplicateCreateRejected ==
    [][ (WellFormedCreate(resp') /\ Registered(channels, resp'.channelId))
        => /\ resp'.status = 400
           /\ resp'.msg = "Channel already exists"
           /\ channels' = channels
           /\ sensor_data' = sensor_data ]_vars

\* C2 witness: a duplicate create that carried another name than the
\* registered one was answered with the conflict.
C2_Witness ==
    /\ WellFormedCreate(resp)
    /\ resp.msg = "Channel already exists"
    /\ Registered(channels, resp.channelId)
    /\ SelectChannel(channels, resp.channelId)[1].name # resp.name

\* C3: a submission for a registered channel in which some item's field is
\* not among the channel's allowed fields is answered 400 and stores
\* nothing: sensor_data is the same before and after.
C3_DisallowedFieldRejectsBatch ==
    [][ (/\ ReachedInsert(resp', hits[resp'.addr])
         /\ Registered(channels, resp'.channelId)
         /\ FirstDisallowed(resp'.data_list,
                Split(SelectChannel(channels, resp'.channelId)[1].fields)) # 0)
        => /\ resp'.status = 400
           /\ sensor_data' = sensor_data ]_vars

\* C3 witness: a two-item batch was rejected for its second item, the first
\* item being allowed.
C3_Witness ==
    /\ resp.op = "receive_data_query"
    /\ resp.status = 400
    /\ resp.msg = "Field not allowed in channel"
    /\ Len(resp.data_list) = 2
    /\ resp.field = resp.data_list[2].field
    /\ resp.field # resp.data_list[1].field

\* C4: a submission whose channelId is not registered is answered 400
\* "Channel does not exist" and changes neither table.
C4_UnknownChannelRejected ==
    [][ (/\ ReachedInsert(resp', hits[resp'.addr])
         /\ ~Registered(channels, resp'.channelId))
        => /\ resp'.status = 400
           /\ resp'.msg = "Channel does not exist"
           /\ channels' = channels
           /\ sensor_data' = sensor_data ]_vars

\* C4 witness: such a submission was rejected while another channel was
\* registered and held readings.
C4_Witness ==
    /\ resp.op = "receive_data_query"
    /\ resp.msg = "Channel does not exist"
    /\ ~Registered(channels, resp.channelId)
    /\ sensor_data # <<>>

\* C5: the rows a fetch of a channel returns hold, for each (field, value),
\* at least as many rows as items with that field and value were submitted
\* to the channel in submissions answered with success, and they are in
\* non-decreasing timestamp order.
C5_SubmittedRowsAreFetched ==
    resp.op = "api_get_data"
    => /\ Sorted(resp.body)
       /\ \A item \in Items :
             Count(resp.body, resp.channelId, item)
               >= Count(accepted, resp.channelId, item)

\* C5 witness: a fetch returned two rows of one channel of which the one
\* inserted first carries the later timestamp.
C5_Witness ==
    /\ resp.op = "api_get_data"
    /\ Len(resp.body) = 2
    /\ Len(sensor_data) = 2
    /\ sensor_data[1].timestamp > sensor_data[2].timestamp

\* C9: every stored reading's channelId is the id of a registered channel.
C9_ReadingsReferenceChannels ==
    \A i \in 1..Len(sensor_data) : Registered(channels, sensor_data[i].channelId)

\* C9 witness: readings are stored for one channel and a submission for an
\* unregistered one has just been refused.
C9_Witness ==
    /\ sensor_data # <<>>
    /\ resp.op = "receive_data_query"
    /\ resp.status = 400
    /\ ~Registered(channels, resp.channelId)
    /\ Len(channels) = 1

\* C10 (as claimed): every stored reading's field is one of the names given
\* to create_channel for its channel; a submission is accepted only if all
\* its fields are among those names, and the field a rejection names is not
\* among them.
C10_FieldsAreThoseSupplied ==
    /\ \A i \in 1..Len(sensor_data) :
          In(sensor_data[i].field, supplied[sensor_data[i].channelId])
    /\ (resp.op = "receive_data_query" /\ resp.status = 200)
          => \A i \in 1..Len(resp.data_list) :
                In(resp.data_list[i].field, supplied[resp.channelId])
    /\ (resp.op = "receive_data_query" /\ resp.msg = "Field not allowed in channel")
          => ~In(resp.field, supplied[resp.channelId])

\* C6 (as claimed): POST /api/data with {channelId, data} is accepted and
\* answers and stores what GET /api/data does for the same channelId and the
\* same (field, value) pairs, that is, what insert_data makes of them.
C6_BothFormsAgree ==
    [][ resp'.op = "post_api_data"
        => LET r == insert_data(channels, sensor_data, now,
                                resp'.channelId, resp'.data_list)
           IN  /\ resp'.status = (IF r.ok THEN 200 ELSE 400)
               /\ sensor_data' = r.sensor_data ]_vars

\* C7: a submission from an address that the limiter has already counted 50
\* times in the running window is answered 429 and inserts no row.
C7_FiftyFirstIsRefused ==
    [][ (/\ resp'.op = "receive_data_query"
         /\ resp'.status # 422
         /\ hits[resp'.addr] >= RateLimit)
        => /\ resp'.status = 429
           /\ sensor_data' = sensor_data ]_vars

\* C7 witness: the 51st request of a window was refused although its channel
\* is registered, its field allowed and the store had room for its row.
C7_Witness ==
    /\ resp.op = "receive_data_query"
    /\ resp.status = 429
    /\ hits[resp.addr] = RateLimit + 1
    /\ insert_data(channels, sensor_data, now, resp.channelId, resp.data_list).ok
    /\ Len(sensor_data) + Len(resp.data_list) <= MaxRows

\* C8: the registry never holds two channels with the same channelId,
\* however the statements of concurrent creates interleave with each other
\* and with submissions, listings and fetches.
C8_ChannelIdsUnique ==
    \A i \in 1..Len(channels) : \A j \in 1..Len(channels) :
        i # j => channels[i].channelId # channels[j].channelId

\* C8 witness: two creates of one channelId both found it free; the first
\* INSERT registered it and the second was refused by the primary key.
C8_Witness ==
    /\ resp.status = 500
    /\ resp.msg = "IntegrityError"
    /\ Registered(channels, resp.channelId)
    /\ SelectChannel(channels, resp.channelId)[1].name # resp.name

\* The rows of a fetch result that carry this channel.
RowsOf(rows, channelId) == Cardinality({i \in 1..Len(rows) : rows[i].channelId = channelId})

\* The batch the API thread is writing: past insert_data's checks, not
\* yet answered.
InFlight ==
    IF pc["api"] \in {"executemany", "commit"} THEN local["api"].data_list ELSE <<>>

\* C11: a batch is persisted all-or-nothing.  Whatever a submission is doing
\* when the script thread fetches, the fetch returns, for every channel, the
\* rows of the batches answered with success and either every row of the
\* batch being written or none of them.
C11_BatchAllOrNothing ==
    resp.op = "form_fetch_data"
    => \A c \in ChannelIds :
          (resp.channelId \in {"", c})
          => LET done == RowsOf(accepted, c)
                 writing == IF pc["api"] \in {"executemany", "commit"}
                               /\ local["api"].channelId = c
                            THEN Len(InFlight) ELSE 0
             IN  RowsOf(resp.body, c) \in {done, done + writing}

\* A fetch of the script thread fell between the first and the second INSERT
\* of a batch of two.
C11_Witness ==
    /\ resp.op = "form_fetch_data"
    /\ resp.channelId = "ch1"
    /\ pc["api"] = "executemany"
    /\ Len(local["api"].data_list) = 2
    /\ local["api"].count = 1
    /\ resp.body = <<>>

\* C12 (as claimed): when create requests for one unregistered channelId run
\* concurrently, every one of them that has run to its end answered either
\* success or "Channel already exists" (400), never a server error, and
\* the stored channel is the one of the request that succeeded.
C12_ConcurrentCreatesAnswered ==
    (/\ resp.op \in {"api_create_channel", "form_create_channel"}
     /\ resp.channelId # "" /\ resp.name # "" /\ resp.fields # <<>>
     /\ resp.msg # "SELECT found no row")
    => /\ \/ resp.status = 200
          \/ resp.status = 400 /\ resp.msg = "Channel already exists"
       /\ resp.status = 200
          => \E i \in 1..Len(channels) :
                /\ channels[i].channelId = resp.channelId
                /\ channels[i].name = resp.name

\* A create payload the interface is to refuse: channelId missing or empty,
\* name missing or empty, or fields missing, empty or not a list.
BadPayload(p) ==
    \/ p.channelId.kind = "none" \/ p.channelId = JStr("")
    \/ p.name.kind = "none" \/ p.name = JStr("")
    \/ p.fields.kind = "none" \/ p.fields.kind # "list" \/ p.fields.list = <<>>

\* C13: POST /api/channel answers 400 to a request whose channelId is missing
\* or empty, whose name is missing or empty, or whose fields are missing,
\* empty or not a list; the answer is the handler's own, given before
\* create_channel is called, and the registry stays as it was.
C13_BadPayloadRejected ==
    [][ \A p \in Payloads :
          (BadPayload(p) /\ api_create_channel_request(p))
          => /\ resp'.status = 400
             /\ resp'.msg = "Missing or invalid channelId, name, or fields"
             /\ channels' = channels ]_vars

\* A text sent where the list of fields belongs was refused while a channel
\* was registered.
C13_Witness ==
    /\ resp.op = "api_create_channel"
    /\ resp.status = 400
    /\ resp.payload # <<>>
    /\ resp.payload[1].channelId = JStr("ch2")
    /\ resp.payload[1].name = JStr("Room1")
    /\ resp.payload[1].fields = JText(TH)
    /\ Len(channels) = 1

\* Pair 1 of a flattened request is not supplied: field1 or value1 is absent
\* or empty.
Pair1NotSupplied(q) ==
    \/ IsNone(q.field[1]) \/ IsNone(q.value[1])
    \/ Get(q.field[1]) = Empty \/ Get(q.value[1]) = ""

\* C14 (as claimed): in the flattened submission pair 1 is mandatory.  A
\* request the limiter lets through in which field1 or value1 is absent or
\* empty is answered 400 and stores nothing, whatever pairs 2..5 carry.
C14_Pair1Mandatory ==
    [][ (/\ resp'.op = "receive_data_query"
         /\ resp'.query # <<>>
         /\ resp'.status # 429
         /\ Pair1NotSupplied(resp'.query[1]))
        => /\ resp'.status = 400
           /\ sensor_data' = sensor_data ]_vars

\* Slot n of a flattened request has both its field and its value sent.
BothSent(q, n) == ~IsNone(q.field[n]) /\ ~IsNone(q.value[n])

\* The slots whose pair belongs to the batch: slot 1 with a field and a
\* value that are not empty, a later slot with both sent.
Included(q) ==
    {n \in 1..MaxSlots : IF n = 1 THEN ~Pair1NotSupplied(q) ELSE BothSent(q, n)}

\* The k-th included slot, counted from slot 1.
SlotAt(q, k) ==
    CHOOSE n \in Included(q) : Cardinality({m \in Included(q) : m < n}) = k - 1

C16_FetchOfUnknownIsEmpty ==
    [][ (/\ resp'.op = "api_get_data"
         /\ \/ ~Registered(channels, resp'.channelId)
            \/ RowsOf(sensor_data, resp'.channelId) = 0)
        => /\ resp'.status = 200
           /\ resp'.body = <<>>
           /\ channels' = channels
           /\ sensor_data' = sensor_data ]_vars

\* A fetch for a channelId that was never registered, while another
\* channel has readings.
C16_Witness ==
    /\ resp.op = "api_get_data"
    /\ ~Registered(channels, resp.channelId)
    /\ sensor_data # <<>>
    /\ resp.status = 200
    /\ resp.body = <<>>

\* C17: a listing or a fetch, by the API thread or the script thread, that
\* starts after a create or a submission has returned success observes the
\* created channel and every submitted reading.
C17_CompletedWritesAreVisible ==
    /\ resp.op \in {"api_get_channels", "form_get_channels"}
       => \A c \in ChannelIds :
             supplied[c] # <<>>
             => \E i \in 1..Len(resp.body) : resp.body[i].channelId = c
    /\ resp.op \in {"api_get_data", "form_fetch_data"}
       => \A k \in 1..Len(accepted) :
             resp.channelId \in {"", accepted[k].channelId}
             => Count(resp.body, accepted[k].channelId, accepted[k])
                   >= Count(accepted, accepted[k].channelId, accepted[k])

\* The script thread fetched a channel after the API thread had answered a
\* batch of two for it with success.
C17_Witness ==
    /\ resp.op = "form_fetch_data"
    /\ resp.channelId = "ch1"
    /\ Len(accepted) = 2
    /\ Len(resp.body) = 2
    /\ pc["api"] = "idle"

\* C18: once a channel is registered, no step (a create, a rejected or
\* racing duplicate create, a submission, a listing, a fetch) changes its
\* name or its field list, and none removes it.
C18_ChannelsImmutable ==
    [][ \A i \in 1..Len(channels) :
           \E j \in 1..Len(channels') : channels'[j] = channels[i] ]_vars

\* A create from the form for a registered channelId, under another name,
\* was rejected after readings had been stored, and the channel still has
\* the first name.
C18_Witness ==
    /\ resp.op = "form_create_channel"
    /\ resp.msg = "Channel already exists"
    /\ resp.name = "Room2"
    /\ SelectChannel(channels, resp.channelId)[1].name = "Room1"
    /\ sensor_data # <<>>

\* C19: readings are append-only.  Every step leaves each stored reading in
\* its place with its id, channelId, field, value and timestamp; the
\* sequence of readings only grows at its end.
C19_ReadingsAppendOnly ==
    [][ /\ Len(sensor_data') >= Len(sensor_data)
        /\ \A i \in 1..Len(sensor_data) : sensor_data'[i] = sensor_data[i] ]_vars

\* A second accepted reading for the same channel and field stands behind
\* the first one.
C19_Witness ==
    /\ resp.op = "receive_data_query"
    /\ resp.status = 200
    /\ resp.count = 1
    /\ Len(sensor_data) = 2
    /\ sensor_data[1].channelId = sensor_data[2].channelId
    /\ sensor_data[1].field = sensor_data[2].field
    /\ sensor_data[1].id = 1
    /\ sensor_data[2].id = 2

\* C20: the limiter counts per client address and its error is its own.  A
\* submission is refused with 429 exactly when its own address has used up
\* the limit of its window; it leaves the other addresses' counts alone;
\* and a refused submission is answered 429, not 400, whatever channel it
\* names, and leaves the registry and the readings as they were.
C20_LimitIsPerAddress ==
    [][ (resp'.op = "receive_data_query" /\ resp'.status # 422)
        => LET a == resp'.addr
           IN  /\ resp'.status = 429 <=> hits[a] >= RateLimit
               /\ \A b \in Addrs \ {a} : hits'[b] = hits[b]
               /\ resp'.status = 429
                  => /\ channels' = channels
                     /\ sensor_data' = sensor_data
                     /\ resp'.msg = "50 per 1 minute" ]_vars

\* An address that has run over its limit is refused with 429 a request
\* that names a channel that does not exist, while the other address has
\* requests counted and is within its limit.
C20_Witness ==
    /\ resp.op = "receive_data_query"
    /\ resp.addr = "ip1"
    /\ resp.status = 429
    /\ resp.channelId = "ch2"
    /\ ~Registered(channels, "ch2")
    /\ hits["ip2"] > 0
    /\ hits["ip2"] <= RateLimit

\* C21: a submission answered with success reports a count equal to the
\* number of rows the request added to sensor_data (rows after minus rows
\* before; submissions run one at a time).
C21_CountIsRowsAdded ==
    [][ (resp'.op = "receive_data_query" /\ resp'.status = 200)
        => /\ resp'.count = Len(sensor_data') - Len(sensor_data)
           /\ resp'.count = Len(resp'.data_list)
           /\ resp'.count > 0 ]_vars

\* A submission with slots 1 and 5 filled was answered with count 2 and
\* the table holds two rows more than before, which was none.
C21_Witness ==
    /\ resp.op = "receive_data_query"
    /\ resp.status = 200
    /\ resp.count = 2
    /\ ~IsNone(resp.query[1].field[5])
    /\ Len(sensor_data) = 2

\* C22 (as claimed): the stored encoding of a field list round-trips.  For
\* every channel that create_channel accepted, decoding the stored text, as
\* insert_data does for its allowed fields and GET /api/channels for its
\* listing, yields the list that was supplied: as many elements, the same
\* strings.
C22_FieldListRoundTrips ==
    /\ \A i \in 1..Len(channels) :
          LET decoded == Split(channels[i].fields)
              given == supplied[channels[i].channelId]
          IN  /\ Len(decoded) = Len(given)
              /\ decoded = given
    /\ resp.op = "api_get_channels"
       => \A i \in 1..Len(resp.body) :
             resp.body[i].fields = supplied[resp.body[i].channelId]

\* C23 (as claimed): every registered channel has a non-empty field list
\* whose elements are all non-empty strings, and a create request whose
\* fields hold an empty element is rejected by the handler with nothing
\* stored.
C23_FieldNamesNonEmpty ==
    /\ \A i \in 1..Len(channels) :
          LET stored == Split(channels[i].fields)
          IN  /\ stored # <<>>
              /\ \A k \in 1..Len(stored) : stored[k] # Empty
    /\ (resp.op = "api_create_channel" /\ In(Empty, resp.fields))
       => resp.status = 400

\* C24 (as claimed): timestamps are non-decreasing in insertion order.  Of
\* two stored readings the one inserted first (the smaller id) never has the
\* later timestamp, so a fetch ordered by timestamp lists the readings in
\* the order of their insertion.
C24_TimestampsFollowInsertion ==
    /\ \A i \in 1..Len(sensor_data) : \A j \in 1..Len(sensor_data) :
          sensor_data[i].id < sensor_data[j].id
          => sensor_data[i].timestamp <= sensor_data[j].timestamp
    /\ fetch_data(sensor_data, "")
          = [i \in 1..Len(sensor_data) |-> Columns(sensor_data[i])]

\* C25: insert_data checks in a fixed order.  A submission that reaches it
\* for a channel that is not registered fails with "Channel does not exist"
\* whatever its items are; for a registered channel with a disallowed field
\* among the items, the error names the field of the first such item in
\* submission order.
C25_ChecksInOrder ==
    (/\ resp.op = "receive_data_query"
     /\ resp.status \notin {422, 429}
     /\ resp.msg # "Missing channelId or data")
    => LET row == SelectChannel(channels, resp.channelId)
           batch == resp.data_list
           Allowed(k) == In(batch[k].field, Split(row[1].fields))
       IN  /\ row = <<>>
              => /\ resp.status = 400
                 /\ resp.msg = "Channel does not exist"
           /\ (row # <<>> /\ \E k \in 1..Len(batch) : ~Allowed(k))
              => /\ resp.status = 400
                 /\ resp.msg = "Field not allowed in channel"
                 /\ \E k \in 1..Len(batch) :
                       /\ ~Allowed(k)
                       /\ \A j \in 1..(k - 1) : Allowed(j)
                       /\ resp.field = batch[k].field

\* A batch of three for a channel that allows "t" alone, with two different
\* disallowed fields as its second and third item, was refused naming the
\* field of the second.
C25_Witness ==
    /\ resp.op = "receive_data_query"
    /\ resp.msg = "Field not allowed in channel"
    /\ resp.data_list = << [field |-> T, value |-> "1"], [field |-> H, value |-> "2"],
                           [field |-> TH, value |-> "5"] >>
    /\ resp.field = H

\* C26: a fetch for a channelId returns exactly the stored readings of that
\* channel, each as often as it is stored, none of another channel and none
\* missing; a fetch without a channelId returns every stored reading; both
\* in ascending order of timestamp.
C26_FetchIsExact ==
    resp.op \in {"api_get_data", "form_fetch_data"}
    => LET want == {i \in 1..Len(sensor_data) :
                       resp.channelId = "" \/ sensor_data[i].channelId = resp.channelId}
           Same(i) == {j \in want : Columns(sensor_data[j]) = Columns(sensor_data[i])}
           Got(i) == {k \in 1..Len(resp.body) : resp.body[k] = Columns(sensor_data[i])}
       IN  /\ Len(resp.body) = Cardinality(want)
           /\ \A i \in want : Cardinality(Got(i)) = Cardinality(Same(i))
           /\ \A k \in 1..Len(resp.body) :
                 resp.channelId \in {"", resp.body[k].channelId}
           /\ Sorted(resp.body)

\* The script thread fetched without a channelId while each of two channels
\* had a reading, and got both.
C26_Witness ==
    /\ resp.op = "form_fetch_data"
    /\ resp.channelId = ""
    /\ Len(resp.body) = 2
    /\ resp.body[1].channelId # resp.body[2].channelId

\* C27: get_channels and fetch_data, called by GET /api/channels and
\* GET /api/data/{channelId} or by the script thread, are read-only: the
\* step leaves the channels table, the sensor_data table and the limiter's
\* counts as they were.
C27_ReadsChangeNothing ==
    [][ resp'.op \in {"api_get_channels", "api_get_data",
                      "form_get_channels", "form_fetch_data"}
        => /\ channels' = channels
           /\ sensor_data' = sensor_data
           /\ hits' = hits ]_vars

\* The listing was read while channels, readings and a counted request
\* were there to be changed.
C27_Witness ==
    /\ resp.op = "api_get_channels"
    /\ Len(resp.body) = 2
    /\ Len(channels) = 2
    /\ sensor_data # <<>>
    /\ hits["ip1"] > 0

\* C30 (as claimed): every request to GET /api/data is counted against its
\* address's window whatever its outcome, so that a request that reaches
\* insert_data is one of the first 50 of its window.
C30_EveryRequestCounts ==
    [][ resp'.op = "receive_data_query"
        => LET a == resp'.addr
           IN  /\ hits'[a] = hits[a] + 1
               /\ (resp'.status \in {200, 400} /\ resp'.msg # "Missing channelId or data")
                  => hits'[a] <= RateLimit ]_vars

\* C28 (as claimed): every store operation closes the connection it opened
\* on every way out, so that a thread that is in no store operation holds no
\* open connection, and an operation that has ended has answered with its
\* connection closed.
C28_ConnectionsClosed ==
    /\ \A t \in Threads : pc[t] = "idle" => local[t].conn = "closed"
    /\ resp.status # 0 => resp.conn = "closed"

\* C29: init_db on a database whose sensor_data has the channelId column
\* leaves every registered channel and every stored reading as it was, at a
\* restart of the process as at a new run of the script; it empties
\* sensor_data only when the table lacks that column, and it never changes
\* channels.
C29_InitDbKeepsData ==
    [][ resp'.op = "init_db"
        => /\ channels' = channels
           /\ In("channelId", columns)
              => /\ sensor_data' = sensor_data
                 /\ columns' = columns
           /\ sensor_data' # sensor_data => ~In("channelId", columns)
           /\ In("channelId", columns') ]_vars

\* init_db ran on a database that held a channel and a reading this version
\* had stored.
C29_Witness ==
    /\ resp.op = "init_db"
    /\ Len(channels) = 1
    /\ accepted # <<>>
    /\ Len(sensor_data) = Len(accepted)
    /\ hits["ip1"] = 0

====
